---- MODULE Spec2Model ----
(***************************************************************************)
(* Model of fusionData<_histBins, _onDevice> (src/src/inc/fusion.h): the   *)
(* voxel store, the bin parameters, the histogram update rule, the         *)
(* forward-gradient / backward-divergence operators and the histogram      *)
(* proximal operator, as one function and statement by statement.          *)
(*                                                                         *)
(* Numbers.  Depths and thresholds handed to updateHist, and the voxel     *)
(* fields u, v, p, are floats of the program; the model keeps them as      *)
(* integers of a fixed unit, on which +, - and comparison are exact.       *)
(* Bin centres, the bin step and the values handled by proxHist are        *)
(* fixed-point values with Scale units per 1.0, wrapped in a record that   *)
(* also represents the IEEE results NaN and +-Inf of a division by zero.   *)
(* A double is any integer of that unit, a float an even one, so that the  *)
(* double -> float conversions of pi and proxHist round.                   *)
(***************************************************************************)
EXTENDS Integers, Sequences, FiniteSets, TLC

VARIABLES
    _histBins,      \* template parameter: number of histogram bins
    _w, _h, _d,     \* grid size in voxels
    _voxel,         \* flat voxel array: [0.._w*_h*_d-1 -> fusionvoxel]
    _bincenters,    \* [0.._histBins-1 -> float]
    _binstep,       \* float
    divZero,        \* a floating-point division with divisor 0 was executed
    oob,            \* a histogram access outside bin[0.._histBins-1] was executed
    pre,            \* _voxel as it was before the last call
    last,           \* the last call: its name, arguments and result
    calls,          \* number of calls made so far
    task,           \* concurrent updateHist invocations: [1..n -> record]
    frame           \* the proxHist invocation executed statement by statement

vars == <<_histBins, _w, _h, _d, _voxel, _bincenters, _binstep,
          divZero, oob, pre, last, calls, task, frame>>

config == <<_histBins, _w, _h, _d, _bincenters, _binstep>>

-----------------------------------------------------------------------------
(* Bounds of the model *)

MaxBins == 5
\* largest _histBins explored (the template parameter; 2 is the smallest)

MaxCalls == 2
\* number of sequential calls explored in one behaviour

\* grid shapes <<w, h, d>> explored
Shapes == { <<1, 1, 1>>, <<2, 1, 1>>, <<1, 2, 1>>, <<1, 1, 2>>,
            <<2, 2, 1>>, <<1, 2, 2>>, <<3, 1, 1>> }

\* depth of the voxel, observed depth and thresholds handed to updateHist
\* (unit 0.05: voxdepth 20, depth 10, threshold 4 is the 1.0 / 0.5 / 0.2 case)
VoxDepths == { 6, 7, 8, 10, 12, 14, 20 }
Depths == { 10 }
Thresholds == { 0 - 2, 0, 4 }

-----------------------------------------------------------------------------
(* Floating-point values of the bin parameters *)

RECURSIVE Fact(_)
Fact(n) == IF n <= 1 THEN 1 ELSE n * Fact(n - 1)

\* fixed-point units per 1.0: every 2/(bins-3) explored is an even number of units
Scale == 4 * Fact(MaxBins - 3)

Num(n) == [k |-> "num", n |-> n]
NaN == [k |-> "nan", n |-> 0]
Inf(s) == [k |-> "inf", n |-> s]

Sign(n) == IF n < 0 THEN 0 - 1 ELSE IF n > 0 THEN 1 ELSE 0
Abs(n) == IF n < 0 THEN 0 - n ELSE n

\* round to nearest of the quotient a/b (b > 0), halves away from zero
RoundQuot(a, b) == Sign(a) * ((2 * Abs(a) + b) \div (2 * b))

\* double -> float: the nearest even number of units, ties to the multiple of 4
ToFloatInt(n) ==
    IF n % 2 = 0 THEN n ELSE IF (n + 1) % 4 = 0 THEN n + 1 ELSE n - 1

ToFloat(f) == IF f.k = "num" THEN Num(ToFloatInt(f.n)) ELSE f

\* float(a) / float(b) for integers a, b, in units of 1/Scale
FDiv(a, b) ==
    IF b = 0
    THEN IF a = 0 THEN NaN ELSE Inf(Sign(a))
    ELSE Num(ToFloatInt(RoundQuot(a * Scale * Sign(b), Abs(b))))

FDivByZero(a, b) == b = 0

\* f - 1.f
FSubOne(f) == IF f.k = "num" THEN Num(f.n - Scale) ELSE f

\* a < b on floats: false when either is NaN
FLess(a, b) ==
    /\ a.k # "nan" /\ b.k # "nan"
    /\ IF a.k = "inf" THEN a.n < 0 /\ ~(b.k = "inf" /\ b.n < 0)
       ELSE IF b.k = "inf" THEN b.n > 0
       ELSE a.n < b.n

-----------------------------------------------------------------------------
(* Construction *)

\* binParams() dividing by _histBins - 2, the number of interior bins
binParamsByInterior(bins) ==
    [ centers |-> [ i \in 0..(bins - 1) |->
                      IF i \in 1..(bins - 2)
                      THEN FSubOne(FDiv(2 * (i - 1), bins - 2))
                      ELSE IF i = bins - 1 THEN Num(Scale) ELSE Num(0 - Scale) ],
      step    |-> FDiv(2, bins - 2),
      divz    |-> \/ \E i \in 1..(bins - 2) : FDivByZero(2 * (i - 1), bins - 2)
                  \/ FDivByZero(2, bins - 2) ]

\* binParams(): _bincenters and _binstep, and whether it divided by zero
binParams(bins) ==
    [ centers |-> [ i \in 0..(bins - 1) |->
                      IF i \in 1..(bins - 2)
                      THEN FSubOne(FDiv(2 * (i - 1), bins - 3))
                      ELSE IF i = bins - 1 THEN Num(Scale) ELSE Num(0 - Scale) ],
      step    |-> FDiv(2, bins - 3),
      divz    |-> \/ \E i \in 1..(bins - 2) : FDivByZero(2 * (i - 1), bins - 3)
                  \/ FDivByZero(2, bins - 3) ]

\* double binCenter(unsigned char binindex)
binCenter(binindex) ==
    IF binindex < _histBins THEN _bincenters[binindex] ELSE Num(0)

binStep == _binstep

\* contents of the store handed out by Malloc: fresh (all zero) or arbitrary
Fill(k, n, bins) ==
    [ i \in 0..(n - 1) |->
        IF k = 0
        THEN [ u |-> 0, v |-> 0, p |-> [x |-> 0, y |-> 0, z |-> 0],
               h |-> [ b \in 0..(bins - 1) |-> 0 ] ]
        ELSE [ u |-> i + 1, v |-> 0 - (i + 1),
               p |-> [x |-> i, y |-> i + 1, z |-> i + 2],
               h |-> [ b \in 0..(bins - 1) |-> (i + b) % 2 ] ] ]

NoTask == << >>

\* no proxHist invocation is running
NoFrame == [pc |-> "idle"]

\* fusionData(w, h, d): the state after construction with the given contents
Constructed(bins, w, h, d, voxels) ==
    /\ _histBins = bins
    /\ _w = w /\ _h = h /\ _d = d
    /\ _voxel = voxels
    /\ _bincenters = binParams(bins).centers
    /\ _binstep = binParams(bins).step
    /\ divZero = binParams(bins).divz
    /\ oob = FALSE
    /\ pre = voxels
    /\ last = [op |-> "fusionData"]
    /\ calls = 0
    /\ frame = NoFrame

Init ==
    /\ \E bins \in 2..MaxBins, s \in Shapes, k \in {0, 1} :
          Constructed(bins, s[1], s[2], s[3], Fill(k, s[1] * s[2] * s[3], bins))
    /\ task = NoTask

-----------------------------------------------------------------------------
(* Element access *)

\* the flat index with the row stride _w left out
voxelPtrNoStride(nx, ny, nz) == nx + ny + nz * _w * _h

\* &_voxel[nx + ny*_w + nz*_w*_h]
voxelPtr(nx, ny, nz) == nx + ny * _w + nz * _w * _h

InGrid(x, y, z) == x \in 0..(_w - 1) /\ y \in 0..(_h - 1) /\ z \in 0..(_d - 1)

Coords == { c \in (0..(_w - 1)) \X (0..(_h - 1)) \X (0..(_d - 1)) : TRUE }

\* histogram<_histBins>: first(), last() and the indexed accessor operator()(i),
\* as positions in the bin array
histFirst == 0
histLast == _histBins - 1
histAt(i) == i - 1

-----------------------------------------------------------------------------
(* updateHist *)

\* updateHist without the _histBins == 2 override
effThresholdKept(threshold) == threshold

\* if (_histBins == 2) threshold = 0.f;
effThreshold(threshold) == IF _histBins = 2 THEN 0 ELSE threshold

\* roundf((sd + threshold) / (2.f * threshold) * (_histBins - 3))
nearBucket(sd, thr) ==
    IF 2 * thr = 0 THEN 0
    ELSE Sign(thr) * Sign((sd + thr) * (_histBins - 3))
         * ((2 * Abs((sd + thr) * (_histBins - 3)) + Abs(2 * thr)) \div (2 * Abs(2 * thr)))

\* the branches of updateHist with strict comparisons
histBranchStrict(sd, thr) ==
    IF sd > thr THEN "empty"
    ELSE IF sd < 0 - thr THEN "occluded"
    ELSE "surface"

\* which of the three branches of updateHist is taken
histBranch(sd, thr) ==
    IF sd >= thr THEN "empty"
    ELSE IF sd <= 0 - thr THEN "occluded"
    ELSE "surface"

\* position in the bin array that updateHist increments
histTarget(sd, thr) ==
    CASE histBranch(sd, thr) = "empty"    -> histLast
      [] histBranch(sd, thr) = "occluded" -> histFirst
      [] OTHER                            -> histAt(nearBucket(sd, thr))

\* the store after updateHist(x, y, z, voxdepth, depth, threshold) on the
\* store voxels; g chooses what the increment does when it falls outside
\* the bin array
updateHistOn(voxels, x, y, z, voxdepth, depth, threshold, g) ==
    LET b == histTarget(voxdepth - depth, effThreshold(threshold))
        i == voxelPtr(x, y, z)
    IN  IF b \in 0..(_histBins - 1)
        THEN [voxels EXCEPT ![i].h[b] = @ + 1]
        ELSE \* bin[-1]++: a write to the bytes in front of the bin array,
             \* which belong to the dual variable of the same voxel
             [voxels EXCEPT ![i].p.z = @ + g]

updateHist(x, y, z, voxdepth, depth, threshold) ==
    LET sd  == voxdepth - depth
        thr == effThreshold(threshold)
        b   == histTarget(sd, thr)
    IN  /\ calls < MaxCalls
        /\ pre' = _voxel
        /\ \E g \in {0, 1} :
              _voxel' = updateHistOn(_voxel, x, y, z, voxdepth, depth, threshold, g)
        /\ oob' = (oob \/ b \notin 0..(_histBins - 1))
        /\ divZero' = (divZero \/ (histBranch(sd, thr) = "surface" /\ FDivByZero(sd + thr, 2 * thr)))
        /\ last' = [op |-> "updateHist", x |-> x, y |-> y, z |-> z,
                    sd |-> sd, threshold |-> threshold, thr |-> thr,
                    branch |-> histBranch(sd, thr), bin |-> b]
        /\ calls' = calls + 1
        /\ UNCHANGED <<config, task, frame>>

DoUpdateHist ==
    \E c \in Coords, vd \in VoxDepths, dp \in Depths, t \in Thresholds :
        updateHist(c[1], c[2], c[3], vd, dp, t)

Next == DoUpdateHist

Spec == Init /\ [][Next]_vars

-----------------------------------------------------------------------------
(* Differential operators *)

\* what a read outside the voxel array yields
Wild == [ u |-> 7, v |-> 7, p |-> [x |-> 7, y |-> 7, z |-> 7] ]

At(i) == IF i \in DOMAIN _voxel THEN _voxel[i] ELSE Wild

\* float& u(nx, ny, nz), float& v(nx, ny, nz), float3& p(nx, ny, nz)
u(nx, ny, nz) == At(voxelPtr(nx, ny, nz)).u
v(nx, ny, nz) == At(voxelPtr(nx, ny, nz)).v
p(nx, ny, nz) == At(voxelPtr(nx, ny, nz)).p

\* gradUFwd comparing against _w, _h, _d instead of _w-1, _h-1, _d-1
gradUFwdUnclamped(x, y, z) ==
    [ x |-> IF x < _w THEN u(x + 1, y, z) - u(x, y, z) ELSE 0,
      y |-> IF y < _h THEN u(x, y + 1, z) - u(x, y, z) ELSE 0,
      z |-> IF z < _d THEN u(x, y, z + 1) - u(x, y, z) ELSE 0,
      reads |-> {<<x, y, z>>}
                \cup (IF x < _w THEN {<<x + 1, y, z>>} ELSE {})
                \cup (IF y < _h THEN {<<x, y + 1, z>>} ELSE {})
                \cup (IF z < _d THEN {<<x, y, z + 1>>} ELSE {}) ]

\* float3 gradUFwd(uint x, uint y, uint z): the result and the voxels read
\* (_w, _h, _d >= 1 in every store explored, so _w - 1 does not wrap)
gradUFwd(x, y, z) ==
    [ x |-> IF x < _w - 1 THEN u(x + 1, y, z) - u(x, y, z) ELSE 0,
      y |-> IF y < _h - 1 THEN u(x, y + 1, z) - u(x, y, z) ELSE 0,
      z |-> IF z < _d - 1 THEN u(x, y, z + 1) - u(x, y, z) ELSE 0,
      reads |-> {<<x, y, z>>}
                \cup (IF x < _w - 1 THEN {<<x + 1, y, z>>} ELSE {})
                \cup (IF y < _h - 1 THEN {<<x, y + 1, z>>} ELSE {})
                \cup (IF z < _d - 1 THEN {<<x, y, z + 1>>} ELSE {}) ]

\* float3 gradVFwd(uint x, uint y, uint z)
gradVFwd(x, y, z) ==
    [ x |-> IF x < _w - 1 THEN v(x + 1, y, z) - v(x, y, z) ELSE 0,
      y |-> IF y < _h - 1 THEN v(x, y + 1, z) - v(x, y, z) ELSE 0,
      z |-> IF z < _d - 1 THEN v(x, y, z + 1) - v(x, y, z) ELSE 0,
      reads |-> {<<x, y, z>>}
                \cup (IF x < _w - 1 THEN {<<x + 1, y, z>>} ELSE {})
                \cup (IF y < _h - 1 THEN {<<x, y + 1, z>>} ELSE {})
                \cup (IF z < _d - 1 THEN {<<x, y, z + 1>>} ELSE {}) ]

\* divPBwd subtracting the backward neighbour on every axis, also at index 0
divPBwdUnguarded(x, y, z) ==
    [ val |-> p(x, y, z).x + p(x, y, z).y + p(x, y, z).z
              - p(x - 1, y, z).x - p(x, y - 1, z).y - p(x, y, z - 1).z,
      reads |-> { <<x, y, z>>, <<x - 1, y, z>>, <<x, y - 1, z>>, <<x, y, z - 1>> } ]

\* float divPBwd(int x, int y, int z): the result and the voxels read
divPBwd(x, y, z) ==
    [ val |-> p(x, y, z).x + p(x, y, z).y + p(x, y, z).z
              - (IF x > 0 THEN p(x - 1, y, z).x ELSE 0)
              - (IF y > 0 THEN p(x, y - 1, z).y ELSE 0)
              - (IF z > 0 THEN p(x, y, z - 1).z ELSE 0),
      reads |-> {<<x, y, z>>}
                \cup (IF x > 0 THEN {<<x - 1, y, z>>} ELSE {})
                \cup (IF y > 0 THEN {<<x, y - 1, z>>} ELSE {})
                \cup (IF z > 0 THEN {<<x, y, z - 1>>} ELSE {}) ]

\* a read-only call on the store as constructed: nothing of the store changes
ReadOnlyCall(name, x, y, z, result) ==
    /\ calls = 0
    /\ calls' = 1
    /\ last' = [op |-> name, x |-> x, y |-> y, z |-> z, ret |-> result]
    /\ pre' = _voxel
    /\ UNCHANGED <<config, _voxel, divZero, oob, task, frame>>

DoGradUFwd == \E c \in Coords : ReadOnlyCall("gradUFwd", c[1], c[2], c[3], gradUFwd(c[1], c[2], c[3]))
DoGradVFwd == \E c \in Coords : ReadOnlyCall("gradVFwd", c[1], c[2], c[3], gradVFwd(c[1], c[2], c[3]))
DoDivPBwd == \E c \in Coords : ReadOnlyCall("divPBwd", c[1], c[2], c[3], divPBwd(c[1], c[2], c[3]))

\* grid shapes and field values explored for the differential operators
DiffShapes == { <<1, 1, 1>>, <<2, 1, 1>>, <<1, 2, 1>>, <<1, 1, 2>>,
                <<3, 1, 1>>, <<2, 2, 1>>, <<1, 2, 2>> }
FieldVals == {0, 1}

\* a store of four bins whose u, v and p hold arbitrary values
DiffStore(n, uf, vf, pf) ==
    [ i \in 0..(n - 1) |->
        [ u |-> uf[i], v |-> vf[i], p |-> pf[i], h |-> [ b \in 0..3 |-> 0 ] ] ]

InitDiff ==
    /\ \E s \in DiffShapes :
         LET n == s[1] * s[2] * s[3] IN
         \E uf \in [0..(n - 1) -> FieldVals],
            pf \in [0..(n - 1) -> [x : FieldVals, y : FieldVals, z : FieldVals]] :
              Constructed(4, s[1], s[2], s[3],
                          DiffStore(n, uf, [i \in 0..(n - 1) |-> 1 - uf[n - 1 - i]], pf))
    /\ task = NoTask

NextDiff == DoGradUFwd \/ DoGradVFwd \/ DoDivPBwd

SpecDiff == InitDiff /\ [][NextDiff]_vars

\* sum over the voxels S of gradUFwd(c) . p(c)
RECURSIVE InnerGradP(_)
InnerGradP(S) ==
    IF S = {} THEN 0
    ELSE LET c == CHOOSE c \in S : TRUE
             g == gradUFwd(c[1], c[2], c[3])
             q == p(c[1], c[2], c[3])
         IN  g.x * q.x + g.y * q.y + g.z * q.z + InnerGradP(S \ {c})

\* sum over the voxels S of u(c) * divPBwd(c)
RECURSIVE InnerUDiv(_)
InnerUDiv(S) ==
    IF S = {} THEN 0
    ELSE LET c == CHOOSE c \in S : TRUE
         IN  u(c[1], c[2], c[3]) * divPBwd(c[1], c[2], c[3]).val + InnerUDiv(S \ {c})

\* C5 (as claimed): for every u and every p, with no restriction on p at the
\* boundary, sum of gradUFwd . p over the grid == - sum of u * divPBwd.
C5_Adjoint == InnerGradP(Coords) = 0 - InnerUDiv(Coords)

\* the dual field is zero where the forward gradient is clamped: p.x at
\* x == _w-1, p.y at y == _h-1, p.z at z == _d-1
DualClamped ==
    \A c \in Coords :
        /\ c[1] = _w - 1 => p(c[1], c[2], c[3]).x = 0
        /\ c[2] = _h - 1 => p(c[1], c[2], c[3]).y = 0
        /\ c[3] = _d - 1 => p(c[1], c[2], c[3]).z = 0

\* the adjoint identity on the dual fields the clamped gradient can produce
AdjointOnClampedDuals == DualClamped => C5_Adjoint

\* the field gradUFwd (gradVFwd) differentiates, read straight from the array
FieldOfLast(x, y, z) ==
    IF last.op = "gradUFwd" THEN _voxel[x + y * _w + z * _w * _h].u
    ELSE _voxel[x + y * _w + z * _w * _h].v

\* C10: gradUFwd and gradVFwd return 0 on an axis whose index is the last one
\* (also when the axis has size 1) and neighbour-minus-self otherwise, and
\* read no voxel outside the grid.
C10_ForwardClamp ==
    last.op \in {"gradUFwd", "gradVFwd"} =>
        LET x == last.x
            y == last.y
            z == last.z
            self == FieldOfLast(x, y, z)
        IN  /\ last.ret.x = IF x = _w - 1 THEN 0 ELSE FieldOfLast(x + 1, y, z) - self
            /\ last.ret.y = IF y = _h - 1 THEN 0 ELSE FieldOfLast(x, y + 1, z) - self
            /\ last.ret.z = IF z = _d - 1 THEN 0 ELSE FieldOfLast(x, y, z + 1) - self
            /\ \A c \in last.ret.reads : InGrid(c[1], c[2], c[3])

\* C10 witness: gradVFwd at the last x of a 2 x 2 x 1 grid returned x == 0,
\* a non-zero y from the neighbour above, and z == 0 on the axis of size 1
C10_Witness ==
    /\ last.op = "gradVFwd" /\ _w = 2 /\ _h = 2 /\ _d = 1
    /\ last.x = 1 /\ last.y = 0
    /\ last.ret.x = 0 /\ last.ret.y # 0 /\ last.ret.z = 0
    /\ _voxel[0].v # _voxel[1].v

\* the dual field of voxel (x, y, z), read straight from the array
DualOfLast(x, y, z) == _voxel[x + y * _w + z * _w * _h].p

\* C11: divPBwd(x, y, z) returns p.x + p.y + p.z of the voxel minus, for each
\* axis whose index is > 0, the same-axis component of the neighbour one step
\* backward; at index 0 the backward term is omitted, and no voxel with a
\* negative coordinate (none outside the grid) is read.
C11_BackwardDivergence ==
    last.op = "divPBwd" =>
        LET x == last.x
            y == last.y
            z == last.z
            self == DualOfLast(x, y, z)
        IN  /\ last.ret.val =
                 self.x + self.y + self.z
                 - (IF x = 0 THEN 0 ELSE DualOfLast(x - 1, y, z).x)
                 - (IF y = 0 THEN 0 ELSE DualOfLast(x, y - 1, z).y)
                 - (IF z = 0 THEN 0 ELSE DualOfLast(x, y, z - 1).z)
            /\ \A c \in last.ret.reads :
                 /\ c[1] >= 0 /\ c[2] >= 0 /\ c[3] >= 0
                 /\ InGrid(c[1], c[2], c[3])
            /\ last.ret.reads =
                 {<<x, y, z>>}
                 \cup { c \in {<<x - 1, y, z>>} : x > 0 }
                 \cup { c \in {<<x, y - 1, z>>} : y > 0 }
                 \cup { c \in {<<x, y, z - 1>>} : z > 0 }

\* C11 witness: divPBwd at (1, 0, 0) of a 2 x 2 x 1 grid subtracted the x
\* component of voxel (0, 0, 0), which is 1, and nothing for y and z, although
\* the voxel stored just before row 1 in memory has a non-zero y component
C11_Witness ==
    /\ last.op = "divPBwd" /\ _w = 2 /\ _h = 2 /\ _d = 1
    /\ last.x = 1 /\ last.y = 0 /\ last.z = 0
    /\ _voxel[0].p.x = 1 /\ _voxel[0].p.y = 1
    /\ _voxel[1].p = [x |-> 1, y |-> 0, z |-> 0]
    /\ last.ret.val = 0
    /\ last.ret.reads = { <<1, 0, 0>>, <<0, 0, 0>> }

-----------------------------------------------------------------------------
(* The proximal operator of the histogram data term *)

\* the count h(x, y, z)(j), read through the 1-based accessor
histCount(x, y, z, j) == _voxel[voxelPtr(x, y, z)].h[histAt(j)]

\* for (unsigned char j = from; j <= to; j++) r += h(x, y, z)(j);
RECURSIVE sumBins(_, _, _, _, _)
sumBins(x, y, z, j, to) ==
    IF j <= to
    THEN histCount(x, y, z, j) + sumBins(x, y, z, (j + 1) % 256, to)
    ELSE 0

\* Wi reading the histogram of voxel (0, 0, 0), the accessor's default
WiDefaultVoxel(i, x, y, z) ==
    sumBins(0, 0, 0, (i + 1) % 256, _histBins) - sumBins(0, 0, 0, 1, i)

\* int Wi(unsigned char i, int x, int y, int z)
Wi(i, x, y, z) ==
    sumBins(x, y, z, (i + 1) % 256, _histBins) - sumBins(x, y, z, 1, i)

\* float pi(double u, unsigned char i, int x, int y, int z, double tau, double lambda)
\* (u in units of 1/Scale, tau and lambda in halves)
pi(uu, i, x, y, z, tau, lambda) ==
    Num(ToFloatInt(uu + (Scale \div 4) * tau * lambda * Wi(i, x, y, z)))

\* sortedHist<_histBins> prox(_bincenters): the elements, in order
sortedHist(centers) == [ k \in 1..Len(centers) |-> centers[k] ]

\* insert(val): val goes behind the last element it is not less than
RECURSIVE insertPos(_, _, _)
insertPos(elts, val, k) ==
    IF k = 0 THEN 0
    ELSE IF FLess(val, elts[k]) THEN insertPos(elts, val, k - 1)
    ELSE k

insert(elts, val) ==
    LET k == insertPos(elts, val, Len(elts))
    IN  SubSeq(elts, 1, k) \o <<val>> \o SubSeq(elts, k + 1, Len(elts))

\* median(): the middle one of the 2 * _histBins + 1 elements
median(elts) == elts[_histBins + 1]

\* for (unsigned char j = from; j <= _histBins; j++) prox.insert(pi(u, j, ...));
RECURSIVE insertAll(_, _, _, _, _, _, _, _)
insertAll(elts, uu, x, y, z, tau, lambda, j) ==
    IF j <= _histBins
    THEN insertAll(insert(elts, pi(uu, j, x, y, z, tau, lambda)),
                   uu, x, y, z, tau, lambda, (j + 1) % 256)
    ELSE elts

\* float proxHist(double u, int x, int y, int z, double tau, double lambda)
proxHist(uu, x, y, z, tau, lambda) ==
    ToFloat(median(insertAll(
        insert(sortedHist([ k \in 1.._histBins |-> _bincenters[k - 1] ]), Num(uu)),
        uu, x, y, z, tau, lambda, 1)))

\* values of u (units of 1/Scale; the odd ones are doubles that are no floats),
\* tau and lambda (halves) handed to proxHist
ProxU == { 0 - Scale - 3, 0 - 2, 0, 1, 4, Scale + 6 }
ProxTau == { 1, 4 }
ProxLambda == { 2, 5 }

DoProxHist ==
    \E c \in Coords, uu \in ProxU, tau \in ProxTau, lambda \in ProxLambda :
        /\ calls = 0
        /\ calls' = 1
        /\ last' = [op |-> "proxHist", x |-> c[1], y |-> c[2], z |-> c[3],
                    u |-> uu, tau |-> tau, lambda |-> lambda,
                    ret |-> proxHist(uu, c[1], c[2], c[3], tau, lambda)]
        /\ pre' = _voxel
        /\ UNCHANGED <<config, _voxel, divZero, oob, task, frame>>

\* histograms explored: empty, one observation behind the surface, several
\* in front of it, one in every bin
ProxHists(bins) ==
    { [ b \in 0..(bins - 1) |-> 0 ],
      [ b \in 0..(bins - 1) |-> IF b = bins - 1 THEN 3 ELSE 0 ],
      [ b \in 0..(bins - 1) |-> IF b = 0 THEN 2 ELSE 0 ],
      [ b \in 0..(bins - 1) |-> 1 ] }

ProxShapes == { <<1, 1, 1>>, <<2, 1, 1>>, <<1, 1, 2>> }

InitProx ==
    /\ \E bins \in 2..MaxBins, s \in ProxShapes :
         LET n == s[1] * s[2] * s[3] IN
         \E hs \in [0..(n - 1) -> ProxHists(bins)] :
            Constructed(bins, s[1], s[2], s[3],
                        [ i \in 0..(n - 1) |->
                            [ u |-> i, v |-> 0, p |-> [x |-> 0, y |-> 0, z |-> 0],
                              h |-> hs[i] ] ])
    /\ task = NoTask

NextProx == DoProxHist

SpecProx == InitProx /\ [][NextProx]_vars

\* the last call addressed a voxel whose histogram counts are all zero
LastHistEmpty ==
    \A b \in 0..(_histBins - 1) :
        _voxel[last.x + last.y * _w + last.z * _w * _h].h[b] = 0

\* C9 (as claimed): for every u, tau, lambda and every voxel whose histogram
\* counts are all zero, proxHist(u, x, y, z, tau, lambda) returns u.
C9_ProxReturnsU ==
    (last.op = "proxHist" /\ LastHistEmpty) => last.ret = Num(last.u)

\* C9 (amended): on a voxel whose histogram counts are all zero proxHist
\* returns u converted to float, the float nearest to u: that is u itself
\* when u is a float, and differs from u by less than one float step
\* otherwise.
C9_ProxReturnsFloatU ==
    (last.op = "proxHist" /\ LastHistEmpty) =>
        /\ last.ret.k = "num"
        /\ last.ret.n % 2 = 0
        /\ last.u % 2 = 0 => last.ret.n = last.u
        /\ last.u % 2 # 0 => last.ret.n \in {last.u - 1, last.u + 1}

\* C9 witness: proxHist on an empty histogram, next to a voxel whose
\* histogram is not empty, returned the float u it was given
C9_Witness ==
    /\ last.op = "proxHist" /\ LastHistEmpty
    /\ last.u = 4 /\ last.ret = Num(4)
    /\ \E i \in DOMAIN _voxel : \E b \in 0..(_histBins - 1) : _voxel[i].h[b] > 0

-----------------------------------------------------------------------------
(* proxHist and Wi statement by statement: the loops over the bin index with
   their unsigned char counters *)

UCharMod == 256
\* number of values of an unsigned char: the type of _histBins, i and j

MaxIter == 300
\* iterations of one loop that are followed

\* bin counts: the small ones and the largest an unsigned char can hold (whose
\* bin centres are rounded to the unit 1 / Scale; the loops do not read them)
LoopBins == (2..MaxBins) \cup {UCharMod - 1}

\* values of u (units of 1/Scale), tau and lambda (halves) handed to proxHist
LoopU == { 0, Scale + 6 }
LoopTau == { 1 }
LoopLambda == { 2 }

\* this->h(x, y, z)(j) as Wi reads it: the count of the bin, or, for an index
\* the accessor maps outside bin[0.._histBins-1], whatever g the memory holds
loopCount(j, g) ==
    IF histAt(j) \in histFirst..histLast
    THEN _voxel[voxelPtr(frame.x, frame.y, frame.z)].h[histAt(j)]
    ELSE g

\* proxHist(u, x, y, z, tau, lambda) is entered: prox(_bincenters), insert(u),
\* and j = 1
ProxEnter ==
    \E c \in Coords, uu \in LoopU, tau \in LoopTau, lambda \in LoopLambda :
        /\ frame.pc = "idle"
        /\ calls = 0
        /\ calls' = 1
        /\ frame' = [ pc |-> "prox", u |-> uu, x |-> c[1], y |-> c[2], z |-> c[3],
                      tau |-> tau, lambda |-> lambda,
                      prox |-> insert(sortedHist([ k \in 1.._histBins |->
                                                     _bincenters[k - 1] ]), Num(uu)),
                      j |-> 1, nProx |-> 0,
                      i |-> 0, wj |-> 0, r |-> 0, nWi |-> 0, passed |-> {} ]
        /\ pre' = _voxel
        /\ UNCHANGED <<config, _voxel, divZero, oob, last, task>>

\* proxHist's loop, j <= _histBins holds: pi(u, j, ...) calls Wi(j, x, y, z),
\* which starts with r = 0 and its own j = 1
ProxStep ==
    /\ frame.pc = "prox"
    /\ frame.j <= _histBins
    /\ frame.nProx < MaxIter
    /\ frame' = [frame EXCEPT !.pc = "wi1", !.nProx = @ + 1,
                              !.i = frame.j, !.wj = 1, !.r = 0, !.nWi = 0]
    /\ UNCHANGED <<config, _voxel, divZero, oob, pre, last, calls, task>>

\* proxHist's loop, j <= _histBins fails: return prox.median()
ProxExit ==
    /\ frame.pc = "prox"
    /\ ~ (frame.j <= _histBins)
    /\ frame' = [frame EXCEPT !.pc = "done"]
    /\ last' = [op |-> "proxHist", x |-> frame.x, y |-> frame.y, z |-> frame.z,
                u |-> frame.u, tau |-> frame.tau, lambda |-> frame.lambda,
                ret |-> ToFloat(median(frame.prox))]
    /\ UNCHANGED <<config, _voxel, divZero, oob, pre, calls, task>>

\* Wi's first loop, j <= i holds: r -= h(x, y, z)(j); j++
WiLowerStep ==
    \E g \in {0, 1} :
        /\ frame.pc = "wi1"
        /\ frame.wj <= frame.i
        /\ frame.nWi < MaxIter
        /\ frame' = [frame EXCEPT !.r = @ - loopCount(frame.wj, g),
                                  !.passed = @ \cup {frame.wj},
                                  !.wj = (@ + 1) % UCharMod,
                                  !.nWi = @ + 1]
        /\ oob' = (oob \/ histAt(frame.wj) \notin histFirst..histLast)
        /\ UNCHANGED <<config, _voxel, divZero, pre, last, calls, task>>

\* Wi's first loop, j <= i fails: the second loop starts with
\* unsigned char j = i + 1
WiLowerExit ==
    /\ frame.pc = "wi1"
    /\ ~ (frame.wj <= frame.i)
    /\ frame' = [frame EXCEPT !.pc = "wi2", !.wj = (frame.i + 1) % UCharMod,
                              !.nWi = 0]
    /\ UNCHANGED <<config, _voxel, divZero, oob, pre, last, calls, task>>

\* Wi's second loop, j <= _histBins holds: r += h(x, y, z)(j); j++
WiUpperStep ==
    \E g \in {0, 1} :
        /\ frame.pc = "wi2"
        /\ frame.wj <= _histBins
        /\ frame.nWi < MaxIter
        /\ frame' = [frame EXCEPT !.r = @ + loopCount(frame.wj, g),
                                  !.passed = @ \cup {frame.wj},
                                  !.wj = (@ + 1) % UCharMod,
                                  !.nWi = @ + 1]
        /\ oob' = (oob \/ histAt(frame.wj) \notin histFirst..histLast)
        /\ UNCHANGED <<config, _voxel, divZero, pre, last, calls, task>>

\* Wi's second loop, j <= _histBins fails: Wi returns r, pi returns
\* float(u + tau * lambda * r), proxHist inserts it and increments its j
WiUpperExit ==
    /\ frame.pc = "wi2"
    /\ ~ (frame.wj <= _histBins)
    /\ frame' = [frame EXCEPT
                    !.pc = "prox",
                    !.prox = insert(@, Num(ToFloatInt(
                                 frame.u + (Scale \div 4) * frame.tau
                                           * frame.lambda * frame.r))),
                    !.j = (@ + 1) % UCharMod]
    /\ UNCHANGED <<config, _voxel, divZero, oob, pre, last, calls, task>>

InitLoop ==
    /\ \E bins \in LoopBins :
       \E hs \in ProxHists(bins) :
          Constructed(bins, 1, 1, 1,
                      [ i \in {0} |->
                          [ u |-> 0, v |-> 0, p |-> [x |-> 0, y |-> 0, z |-> 0],
                            h |-> hs ] ])
    /\ task = NoTask

NextLoop ==
    \/ ProxEnter
    \/ ProxStep
    \/ ProxExit
    \/ WiLowerStep
    \/ WiLowerExit
    \/ WiUpperStep
    \/ WiUpperExit

SpecLoop == InitLoop /\ [][NextLoop]_vars

\* a proxHist invocation has been entered
Running == frame.pc # "idle"

\* no loop of the invocation has made more than _histBins iterations, and
\* every index handed to the histogram accessor lies in 1.._histBins
LoopsWithinBins ==
    /\ frame.nProx <= _histBins
    /\ frame.nWi <= _histBins
    /\ frame.passed \subseteq 1.._histBins

\* C12 (as claimed): for every bin count an unsigned char can hold (2..255)
\* and every histogram, each loop of proxHist and Wi over the bin index makes
\* at most _histBins iterations, hence terminates, and passes only indices in
\* 1.._histBins to the histogram accessor.
C12_LoopsBounded == Running => LoopsWithinBins

\* the same for the bin counts below the largest unsigned char
LoopsBoundedBelowMax ==
    (Running /\ _histBins < UCharMod - 1) => LoopsWithinBins

\* a returned invocation made exactly _histBins iterations of proxHist's loop
\* and returned what proxHist, evaluated as one function, returns
StepwiseAgrees ==
    frame.pc = "done" =>
        /\ frame.nProx = _histBins
        /\ frame.passed = 1.._histBins
        /\ last.ret = proxHist(frame.u, frame.x, frame.y, frame.z,
                               frame.tau, frame.lambda)

\* with the largest bin count Wi's second loop has wrapped its counter and
\* handed index 0 to the accessor, proxHist still being in its first iteration
WrappedAtMax ==
    /\ _histBins = UCharMod - 1
    /\ frame.pc = "wi2" /\ frame.nProx = 1
    /\ 0 \in frame.passed
    /\ frame.nWi > _histBins

\* with the largest bin count no invocation returns
NoReturnAtMax == _histBins = UCharMod - 1 => frame.pc # "done"

-----------------------------------------------------------------------------
(* Concurrent invocations: one task per voxel, each updateHist a load of the
   bin count followed, after any number of steps of other tasks, by the store
   of the incremented value *)

NumTasks == 2
\* number of concurrent updateHist tasks

ParShapes == { <<2, 1, 1>>, <<2, 2, 1>>, <<1, 2, 2>> }
ParVoxDepths == { 7, 20 }

Tasks == DOMAIN task

\* position in the bin array task t increments
taskTarget(t) ==
    histTarget(task[t].voxdepth - task[t].depth, effThreshold(task[t].threshold))

taskVoxel(t) == voxelPtr(task[t].x, task[t].y, task[t].z)

\* this->h(x, y, z)(i)  ...  ++ : the read of the count
TaskLoad(t) ==
    /\ task[t].pc = "start"
    /\ task' = [task EXCEPT ![t].pc = "loaded",
                            ![t].reg = IF taskTarget(t) \in 0..(_histBins - 1)
                                       THEN _voxel[taskVoxel(t)].h[taskTarget(t)]
                                       ELSE _voxel[taskVoxel(t)].p.z]
    /\ UNCHANGED <<config, _voxel, divZero, oob, pre, last, calls, frame>>

\* ... ++ : the write of the incremented count
TaskStore(t) ==
    /\ task[t].pc = "loaded"
    /\ IF taskTarget(t) \in 0..(_histBins - 1)
       THEN /\ _voxel' = [_voxel EXCEPT ![taskVoxel(t)].h[taskTarget(t)] = task[t].reg + 1]
            /\ oob' = oob
       ELSE /\ \E g \in {0, 1} :
                  _voxel' = [_voxel EXCEPT ![taskVoxel(t)].p.z = task[t].reg + g]
            /\ oob' = TRUE
    /\ task' = [task EXCEPT ![t].pc = "done"]
    /\ UNCHANGED <<config, divZero, pre, last, calls, frame>>

\* a differential operator evaluated once while the tasks run
ParRead ==
    \E c \in Coords :
        /\ \E r \in { [op |-> "gradUFwd", ret |-> gradUFwd(c[1], c[2], c[3])],
                      [op |-> "gradVFwd", ret |-> gradVFwd(c[1], c[2], c[3])],
                      [op |-> "divPBwd", ret |-> divPBwd(c[1], c[2], c[3])] } :
              last' = [op |-> r.op, x |-> c[1], y |-> c[2], z |-> c[3], ret |-> r.ret]
        /\ calls = 0
        /\ calls' = 1
        /\ UNCHANGED <<config, _voxel, divZero, oob, pre, task, frame>>

InitPar ==
    /\ \E s \in ParShapes :
          Constructed(4, s[1], s[2], s[3], Fill(1, s[1] * s[2] * s[3], 4))
    /\ \E n \in 1..NumTasks :
       \E at \in [1..n -> Coords], vd \in [1..n -> ParVoxDepths] :
          /\ \A a, b \in 1..n : a # b => at[a] # at[b]
          /\ task = [ t \in 1..n |->
                        [ x |-> at[t][1], y |-> at[t][2], z |-> at[t][3],
                          voxdepth |-> vd[t], depth |-> 10, threshold |-> 4,
                          pc |-> "start", reg |-> 0 ] ]

NextPar == (\E t \in Tasks : TaskLoad(t)) \/ (\E t \in Tasks : TaskStore(t)) \/ ParRead

SpecPar == InitPar /\ [][NextPar]_vars

\* the stores that running the tasks' calls one after the other, tasks
\* t, t+1, ..., from the store voxels can end in
RECURSIVE SeqOutcomes(_, _)
SeqOutcomes(voxels, t) ==
    IF t \notin Tasks THEN {voxels}
    ELSE UNION { SeqOutcomes(updateHistOn(voxels, task[t].x, task[t].y, task[t].z,
                                          task[t].voxdepth, task[t].depth,
                                          task[t].threshold, g), t + 1) : g \in {0, 1} }

AllDone == Tasks # {} /\ \A t \in Tasks : task[t].pc = "done"

\* the flat index of a voxel, by position in the lattice: x fastest, then y
Flat(c) == c[1] + _w * (c[2] + _h * c[3])

-----------------------------------------------------------------------------
(* Properties of updateHist and of the bin parameters *)

\* the voxel addressed by the last call
lastVoxel == voxelPtr(last.x, last.y, last.z)

\* the last call raised exactly the count at position b of its voxel by one
\* and left the other counts of that voxel as they were
OnlyBinRaised(b) ==
    /\ b \in 0..(_histBins - 1)
    /\ _voxel[lastVoxel].h[b] = pre[lastVoxel].h[b] + 1
    /\ \A c \in 0..(_histBins - 1) : c # b => _voxel[lastVoxel].h[c] = pre[lastVoxel].h[c]

\* everything but the histogram of the addressed voxel is as it was
FrameKept ==
    /\ _voxel[lastVoxel].u = pre[lastVoxel].u
    /\ _voxel[lastVoxel].v = pre[lastVoxel].v
    /\ _voxel[lastVoxel].p = pre[lastVoxel].p
    /\ \A j \in DOMAIN _voxel : j # lastVoxel => _voxel[j] = pre[j]

\* C1 (as claimed): every call of updateHist on an in-range voxel raises
\* exactly one bin count of that voxel's histogram by exactly one and leaves
\* everything else unchanged (the other bins, u, v, p, every other voxel).
C1_PureIncrement ==
    last.op = "updateHist" =>
        /\ \E b \in 0..(_histBins - 1) : OnlyBinRaised(b)
        /\ FrameKept

\* the last call, compared against threshold t, raised the last (empty) bin
\* when sd >= t and the first (occluded) bin when sd <= -t and sd < t, equality
\* included, and changed nothing else
RoutedBy(t) ==
    /\ last.sd >= t => OnlyBinRaised(_histBins - 1) /\ FrameKept
    /\ (last.sd <= 0 - t /\ last.sd < t) => OnlyBinRaised(0) /\ FrameKept

\* C2: updateHist routes by inclusive comparisons on sd = voxdepth - depth:
\* sd >= threshold, equality included, raises the last (empty) bin, and
\* sd <= -threshold with sd < threshold, equality included, raises the first
\* (occluded) bin. threshold is the value the code compares with, which is
\* the caller's unless _histBins == 2 forces it to 0; for the caller's own
\* threshold the routing holds too unless it is negative and _histBins == 2.
C2_InclusiveRouting ==
    last.op = "updateHist" =>
        /\ RoutedBy(last.thr)
        /\ (last.threshold >= 0 \/ _histBins # 2) => RoutedBy(last.threshold)

\* C2 witness: sd == threshold (0.2) on a fresh store raised the last bin to 1,
\* all other bins 0.
C2_Witness ==
    /\ last.op = "updateHist" /\ last.threshold = 4 /\ last.sd = last.threshold
    /\ \A b \in 0..(_histBins - 1) :
          _voxel[lastVoxel].h[b] = IF b = _histBins - 1 THEN 1 ELSE 0

\* the 1.0 / 0.5 / 0.2 scenario: the last bin is 1, all others 0
C2_Scenario ==
    /\ last.op = "updateHist" /\ last.threshold = 4 /\ last.sd = 10
    /\ \A b \in 0..(_histBins - 1) :
          _voxel[lastVoxel].h[b] = IF b = _histBins - 1 THEN 1 ELSE 0

\* C3 (as claimed): for _histBins >= 4, threshold > 0 and
\* -threshold < sd < threshold, the bin updateHist increments is an interior
\* bin, position 1.._histBins-2 of the bin array: never the occluded bin 0,
\* never the empty bin _histBins-1, never a position outside the histogram.
C3_InteriorBin ==
    ( /\ last.op = "updateHist" /\ _histBins >= 4 /\ last.threshold > 0
      /\ 0 - last.threshold < last.sd /\ last.sd < last.threshold )
    => /\ last.bin \in 1..(_histBins - 2)
       /\ OnlyBinRaised(last.bin)

\* C4 (as claimed): for _histBins >= 4, binCenter(0) == -1,
\* binCenter(_histBins-1) == +1, the centers are strictly increasing in the
\* bin index, and binStep == 2/(_histBins-3).
C4_StrictlyIncreasing ==
    _histBins >= 4 =>
        /\ binCenter(0) = Num(0 - Scale)
        /\ binCenter(_histBins - 1) = Num(Scale)
        /\ \A i \in 0..(_histBins - 2) : FLess(binCenter(i), binCenter(i + 1))
        /\ binStep.k = "num" /\ binStep.n * (_histBins - 3) = 2 * Scale

\* C4 (amended): for _histBins >= 4, binCenter(0) == -1,
\* binCenter(_histBins-1) == +1, binStep == 2/(_histBins-3), the centers never
\* decrease with the bin index and increase strictly (by binStep) over the
\* interior bins 1.._histBins-2, whose first and last centers coincide with
\* the reserved ones: binCenter(1) == -1 and binCenter(_histBins-2) == +1.
C4_Centers ==
    _histBins >= 4 =>
        /\ binCenter(0) = Num(0 - Scale)
        /\ binCenter(_histBins - 1) = Num(Scale)
        /\ binCenter(1) = binCenter(0)
        /\ binCenter(_histBins - 2) = binCenter(_histBins - 1)
        /\ \A i \in 0..(_histBins - 2) : ~FLess(binCenter(i + 1), binCenter(i))
        /\ \A i \in 0..(_histBins - 1) : binCenter(i).k = "num"
        /\ \A i \in 1..(_histBins - 3) :
              /\ FLess(binCenter(i), binCenter(i + 1))
              /\ binCenter(i + 1).n - binCenter(i).n = binStep.n
        /\ binStep.k = "num" /\ binStep.n * (_histBins - 3) = 2 * Scale

\* C4 witness: a store with five bins, centers -1, -1, 0, +1, +1
C4_Witness ==
    /\ _histBins = 5
    /\ binCenter(2) = Num(0) /\ binCenter(1) = Num(0 - Scale) /\ binCenter(3) = Num(Scale)

\* C7 (as claimed): for _histBins = 2 and _histBins = 3 neither the bin
\* parameters computed at construction nor the near-surface bucket
\* computation of updateHist divides by zero.
C7_NoDivisionByZero ==
    _histBins \in {2, 3} => ~divZero

\* C8: with _histBins == 2 the caller's threshold is ignored: every call of
\* updateHist raises the last bin when sd >= 0 and the first bin when sd < 0,
\* whatever the threshold, and never takes the near-surface branch.
C8_BinarySplit ==
    (last.op = "updateHist" /\ _histBins = 2) =>
        /\ last.thr = 0
        /\ last.branch # "surface"
        /\ FrameKept
        /\ IF last.sd >= 0 THEN OnlyBinRaised(1) ELSE OnlyBinRaised(0)

\* C8 witness: two bins, a caller threshold of 0.2 and a signed distance
\* inside (-0.2, 0.2): the call raised the first bin
C8_Witness ==
    /\ last.op = "updateHist" /\ _histBins = 2
    /\ last.threshold = 4 /\ last.sd < 0 /\ last.sd > 0 - 4
    /\ OnlyBinRaised(0)

====
